---- MODULE Spec2Model ----
(***************************************************************************)
(* A model of the QAOA QUBO solvers of this repository:                    *)
(*   SimpleQAOAOptimizer  (simple_qaoa_optimizer.py, the variational one)  *)
(*   QAOAPortfolioOptimizer (qaoa_portfolio_optimizer.py)                  *)
(*                                                                         *)
(* Numbers.  QUBO coefficients are integers.  A Hamiltonian coefficient is *)
(* a QUBO coefficient divided by 2 or by 4, so the model stores every      *)
(* Hamiltonian coefficient, every energy and the constant term as a        *)
(* multiple of 1/4: the stored integer is 4 times the value of the code.   *)
(* With integer coefficients  abs(c) > 1e-10  is  c # 0.                   *)
(*                                                                         *)
(* Library objects.  A SparsePauliOp is the pair of its label list and its *)
(* coefficient list, as the code builds and reads it; a label is the       *)
(* sequence of its characters, position q+1 of the model being index q of  *)
(* the code.  A counts dictionary is the sequence of its (key, count)      *)
(* entries in iteration order.                                             *)
(***************************************************************************)
EXTENDS Integers, Sequences, FiniteSets, TLC

VARIABLES
    previous,        \* an earlier call on the same object and problem: its arguments and result
    method,          \* the entry point that was called
    qubo_problem,    \* solve: the QuadraticProgram (num_vars, linear, quadratic)
    qubo_dict,       \* solve_problem: the dict, a function from its keys (i, j)
    reps,            \* self.reps
    shots,           \* self.shots
    self_backend,    \* self.backend (None is "None")
    optimizer_name,  \* argument optimizer_name
    use_variational, \* argument use_variational
    pc,              \* position in the called method
    qubo_matrix,     \* local qubo_matrix
    hamiltonian,     \* local hamiltonian
    backend,         \* local backend / simulator: the execution target in use
    gammas,          \* parameters bound in the final circuit
    betas,
    nfev,            \* cost-function evaluations made by the parameter search
    qaoa_circuit,    \* the final circuit
    counts,          \* histogram of the final execution
    solution,        \* bit vector an objective is evaluated on
    cost_eval,       \* the last cost-function evaluation of the search
    search_end,      \* how the parameter search ended ("none" while it has not)
    result,          \* value returned to the caller
    error,           \* exception in flight or raised to the caller ("none")
    log,             \* logger records emitted so far (levels and tags)
    jobs             \* the target of every run(...) made so far, in order

vars == << previous, method, qubo_problem, qubo_dict, reps, shots, self_backend,
           optimizer_name, use_variational, pc, qubo_matrix, hamiltonian,
           backend, gammas, betas, nfev, qaoa_circuit, counts, solution,
           cost_eval, search_end, result, error, log, jobs >>

(***************************************************************************)
(* Bounds of the model and the small sets the inputs are drawn from.       *)
(***************************************************************************)
MaxN == 2
MaxTerms == 2
MaxEvals == 2
\* the matrices _qubo_to_hamiltonian is called with on its own
MaxRows == 3
MaxCoefs == 2

CoefValues == {-1, 2}
DictValues == CoefValues \cup {0}
RepsValues == {1, 2}
ShotsValues == {2}
BackendNames == {"ibm_brisbane"}
OptimizerNames == {"COBYLA", "SPSA", "ADAM"}
None == "None"
\* None where a dict or a circuit is expected
Unset == << >>

Indices(n) == 0 .. (n - 1)
Abs(v) == IF v < 0 THEN -v ELSE v

RECURSIVE SumOver(_, _)
SumOver(S, f) ==
    IF S = {} THEN 0
    ELSE LET e == CHOOSE e \in S : TRUE IN f[e] + SumOver(S \ {e}, f)

(***************************************************************************)
(* Matrices: numpy arrays of shape (rows, cols).                           *)
(***************************************************************************)
Cells(r, c) == Indices(r) \X Indices(c)

Matrix(r, c, S, v) ==
    [rows |-> r, cols |-> c,
     at |-> [p \in Cells(r, c) |-> IF p \in S THEN v[p] ELSE 0]]

Zeros(n) == Matrix(n, n, {}, <<>>)

\* The matrices of at most MaxRows rows and columns, square or not, symmetric
\* where both cells exist, with at most MaxCoefs coefficients on or above the diagonal.
SymmetricMatrix(r, c, S, v) ==
    [rows |-> r, cols |-> c,
     at |-> [p \in Cells(r, c) |->
               IF p \in S THEN v[p]
               ELSE IF <<p[2], p[1]>> \in S THEN v[<<p[2], p[1]>>]
               ELSE 0]]

Matrices ==
    UNION { UNION { { SymmetricMatrix(t[1], t[2], S, v) : v \in [S -> CoefValues] } :
                    S \in { U \in SUBSET {p \in Cells(t[1], t[2]) : p[1] <= p[2]} :
                              Cardinality(U) <= MaxCoefs } } :
            t \in (0 .. MaxRows) \X (0 .. MaxRows) }

BitVectors(n) == [1 .. n -> {0, 1}]

(***************************************************************************)
(* SimpleQAOAOptimizer._qubo_to_hamiltonian                                *)
(***************************************************************************)
AboveEps(c) == Abs(c) > 0

PauliStr(n, Z) == [q \in 1 .. n |-> IF (q - 1) \in Z THEN "Z" ELSE "I"]

\* the diagonal loop appending coeff / 4 instead of coeff / 2
RECURSIVE DiagonalTermsQuartered(_, _, _)
DiagonalTermsQuartered(Q, n, i) ==
    IF i >= n THEN << >>
    ELSE (IF AboveEps(Q.at[<<i, i>>])
          THEN << <<PauliStr(n, {i}), Q.at[<<i, i>>]>> >>
          ELSE << >>)
         \o DiagonalTermsQuartered(Q, n, i + 1)

RECURSIVE DiagonalTerms(_, _, _)
DiagonalTerms(Q, n, i) ==
    IF i >= n THEN << >>
    ELSE (IF AboveEps(Q.at[<<i, i>>])
          THEN << <<PauliStr(n, {i}), 2 * Q.at[<<i, i>>]>> >>
          ELSE << >>)
         \o DiagonalTerms(Q, n, i + 1)

\* the off-diagonal loop without its Z_j block
RECURSIVE OffDiagonalTermsWithoutZj(_, _, _, _)
OffDiagonalTermsWithoutZj(Q, n, i, j) ==
    IF i >= n THEN << >>
    ELSE IF j >= n THEN OffDiagonalTermsWithoutZj(Q, n, i + 1, i + 2)
    ELSE (IF AboveEps(Q.at[<<i, j>>])
          THEN << <<PauliStr(n, {i, j}), Q.at[<<i, j>>]>>,
                  <<PauliStr(n, {i}), Q.at[<<i, j>>]>> >>
          ELSE << >>)
         \o OffDiagonalTermsWithoutZj(Q, n, i, j + 1)

RECURSIVE OffDiagonalTerms(_, _, _, _)
OffDiagonalTerms(Q, n, i, j) ==
    IF i >= n THEN << >>
    ELSE IF j >= n THEN OffDiagonalTerms(Q, n, i + 1, i + 2)
    ELSE (IF AboveEps(Q.at[<<i, j>>])
          THEN << <<PauliStr(n, {i, j}), Q.at[<<i, j>>]>>,
                  <<PauliStr(n, {i}), Q.at[<<i, j>>]>>,
                  <<PauliStr(n, {j}), Q.at[<<i, j>>]>> >>
          ELSE << >>)
         \o OffDiagonalTerms(Q, n, i, j + 1)

ConstantTerm(Q, n) ==
    SumOver(Indices(n), [i \in Indices(n) |-> 2 * Q.at[<<i, i>>]])
    + SumOver({p \in Cells(n, n) : p[1] < p[2]},
              [p \in Cells(n, n) |-> Q.at[p]])

SparsePauliOp(terms) ==
    IF terms = << >>
    THEN [error |-> "QiskitError", paulis |-> << >>, coeffs |-> << >>]
    ELSE [error |-> "none",
          paulis |-> [k \in 1 .. Len(terms) |-> terms[k][1]],
          coeffs |-> [k \in 1 .. Len(terms) |-> terms[k][2]]]

\* _qubo_to_hamiltonian appending the constant term before the other terms
qubo_to_hamiltonian_constant_first(Q) ==
    LET n == Q.rows IN
    IF n > Q.cols
    THEN [error |-> "IndexError", paulis |-> << >>, coeffs |-> << >>]
    ELSE LET constant == ConstantTerm(Q, n)
             terms == (IF AboveEps(constant)
                       THEN << <<PauliStr(n, {}), constant>> >>
                       ELSE << >>)
                      \o DiagonalTerms(Q, n, 0)
                      \o OffDiagonalTerms(Q, n, 0, 1)
         IN SparsePauliOp(terms)

qubo_to_hamiltonian(Q) ==
    LET n == Q.rows IN
    IF n > Q.cols
    THEN [error |-> "IndexError", paulis |-> << >>, coeffs |-> << >>]
    ELSE LET constant == ConstantTerm(Q, n)
             terms == DiagonalTerms(Q, n, 0)
                      \o OffDiagonalTerms(Q, n, 0, 1)
                      \o (IF AboveEps(constant)
                          THEN << <<PauliStr(n, {}), constant>> >>
                          ELSE << >>)
         IN SparsePauliOp(terms)

(***************************************************************************)
(* cost_function, lines 421-434: the energy of one bit vector.             *)
(***************************************************************************)
RECURSIVE TermContrib(_, _, _, _)
TermContrib(pauli_str, coeff, x, q) ==
    IF q > Len(pauli_str) THEN coeff
    ELSE (IF pauli_str[q] = "Z" THEN 1 - 2 * x[q] ELSE 1)
         * TermContrib(pauli_str, coeff, x, q + 1)

\* the energy of one bit vector with the identity terms left out
bitstring_energy_without_constant(H, x) ==
    SumOver({k \in DOMAIN H.paulis : \E q \in DOMAIN H.paulis[k] : H.paulis[k][q] = "Z"},
            [k \in DOMAIN H.paulis |-> TermContrib(H.paulis[k], H.coeffs[k], x, 1)])

bitstring_energy(H, x) ==
    SumOver(DOMAIN H.paulis,
            [k \in DOMAIN H.paulis |-> TermContrib(H.paulis[k], H.coeffs[k], x, 1)])

(***************************************************************************)
(* SimpleQAOAOptimizer._calculate_objective_value                          *)
(***************************************************************************)
\* _calculate_objective_value with its inner loop started at i instead of i + 1
objective_with_inner_loop_from_i(x, Q) ==
    LET n == Len(x) IN
    SumOver(Indices(n), [i \in Indices(n) |-> Q.at[<<i, i>>] * x[i + 1]])
    + SumOver({p \in Cells(n, n) : p[1] <= p[2]},
              [p \in Cells(n, n) |-> Q.at[p] * x[p[1] + 1] * x[p[2] + 1]])

\* _calculate_objective_value with its inner loop over every j other than i
objective_over_both_triangles(x, Q) ==
    LET n == Len(x) IN
    SumOver(Indices(n), [i \in Indices(n) |-> Q.at[<<i, i>>] * x[i + 1]])
    + SumOver({p \in Cells(n, n) : p[1] # p[2]},
              [p \in Cells(n, n) |-> Q.at[p] * x[p[1] + 1] * x[p[2] + 1]])

calculate_objective_value(x, Q) ==
    LET n == Len(x) IN
    SumOver(Indices(n), [i \in Indices(n) |-> Q.at[<<i, i>>] * x[i + 1]])
    + SumOver({p \in Cells(n, n) : p[1] < p[2]},
              [p \in Cells(n, n) |-> Q.at[p] * x[p[1] + 1] * x[p[2] + 1]])

(***************************************************************************)
(* The inputs: QuadraticPrograms (solve) and dicts (solve_problem).        *)
(* objective.linear.to_dict() and objective.quadratic.to_dict() hold the   *)
(* non-zero coefficients, the quadratic ones under keys (i, j), i <= j.    *)
(***************************************************************************)
UpperCells(n) == {p \in Cells(n, n) : p[1] <= p[2]}

ProgramsWith(maxn, maxterms) ==
    UNION { UNION { { [num_vars |-> n, linear |-> l, quadratic |-> q] :
                        l \in [s[1] -> CoefValues], q \in [s[2] -> CoefValues] } :
                    s \in { t \in (SUBSET Indices(n)) \X (SUBSET UpperCells(n)) :
                              Cardinality(t[1]) + Cardinality(t[2]) <= maxterms } } :
            n \in 0 .. maxn }

DictsWith(maxn, maxterms) ==
    UNION { [S -> DictValues] :
            S \in { T \in SUBSET Cells(maxn, maxn) : Cardinality(T) <= maxterms } }

QuadraticPrograms == ProgramsWith(MaxN, MaxTerms)
Dicts == DictsWith(MaxN, MaxTerms)
SingleTermPrograms == ProgramsWith(MaxN, 1)
SingleTermDicts == DictsWith(MaxN, 1)

\* The objective of the QuadraticProgram itself (test_simple_qaoa.py, lines 54-63).
expected_obj(qp, x) ==
    SumOver(DOMAIN qp.linear, [i \in DOMAIN qp.linear |-> qp.linear[i] * x[i + 1]])
    + SumOver(DOMAIN qp.quadratic,
              [p \in DOMAIN qp.quadratic |-> qp.quadratic[p] * x[p[1] + 1] * x[p[2] + 1]])

(***************************************************************************)
(* solve, lines 202-212: the matrix of a QuadraticProgram.                 *)
(***************************************************************************)
MatrixOfProgram(qp) ==
    LET n == qp.num_vars
        lin == [p \in Cells(n, n) |->
                  IF p[1] = p[2] /\ p[1] \in DOMAIN qp.linear THEN qp.linear[p[1]] ELSE 0]
    IN [rows |-> n, cols |-> n,
        at |-> [p \in Cells(n, n) |->
                  IF p \in DOMAIN qp.quadratic THEN qp.quadratic[p]
                  ELSE IF <<p[2], p[1]>> \in DOMAIN qp.quadratic
                       THEN qp.quadratic[<<p[2], p[1]>>]
                  ELSE lin[p]]]

(***************************************************************************)
(* solve_problem, lines 280-292: n_vars and the matrix of a dict.          *)
(***************************************************************************)
all_indices(d) == UNION { {p[1], p[2]} : p \in DOMAIN d }

SetMax(S) == CHOOSE m \in S : \A e \in S : e <= m

\* The orders in which the dict may yield its keys (its insertion orders).
KeyOrders(d) ==
    { o \in [1 .. Cardinality(DOMAIN d) -> DOMAIN d] :
        \A a, b \in DOMAIN o : a # b => o[a] # o[b] }

\* the matrix filled from the dict without the mirrored assignment of lines 291-292
RECURSIVE FillFromDictWithoutMirror(_, _, _, _)
FillFromDictWithoutMirror(at, d, order, k) ==
    IF k > Len(order) THEN at
    ELSE FillFromDictWithoutMirror([at EXCEPT ![order[k]] = d[order[k]]],
                                   d, order, k + 1)

RECURSIVE FillFromDict(_, _, _, _)
FillFromDict(at, d, order, k) ==
    IF k > Len(order) THEN at
    ELSE LET i == order[k][1]
             j == order[k][2]
             coeff == d[order[k]]
         IN FillFromDict([at EXCEPT ![<<i, j>>] = coeff, ![<<j, i>>] = coeff],
                         d, order, k + 1)

MatrixOfDict(d, order) ==
    LET n_vars == SetMax(all_indices(d)) + 1
    IN [rows |-> n_vars, cols |-> n_vars,
        at |-> FillFromDict(Zeros(n_vars).at, d, order, 1)]

(***************************************************************************)
(* Circuits: the number of qubits and the sequence of operations.          *)
(***************************************************************************)
RECURSIVE Concat(_, _)
Concat(ss, k) == IF k > Len(ss) THEN << >> ELSE ss[k] \o Concat(ss, k + 1)

num_qubits(H) == IF H.paulis # << >> THEN Len(H.paulis[1]) ELSE 0

IsIdentity(pauli_str) == \A q \in DOMAIN pauli_str : pauli_str[q] = "I"

RECURSIVE ZRotations(_, _, _, _)
ZRotations(pauli_str, gamma, coeff, q) ==
    IF q > Len(pauli_str) THEN << >>
    ELSE (IF pauli_str[q] = "Z"
          THEN << [gate |-> "rz", angle |-> <<2, gamma, coeff>>, qubit |-> q - 1] >>
          ELSE << >>)
         \o ZRotations(pauli_str, gamma, coeff, q + 1)

CostUnitary(H, gamma) ==
    Concat([k \in DOMAIN H.paulis |->
              IF IsIdentity(H.paulis[k]) THEN << >>
              ELSE ZRotations(H.paulis[k], gamma, H.coeffs[k], 1)], 1)

MixerUnitary(n, beta) ==
    [q \in 1 .. n |-> [gate |-> "rx", angle |-> <<2, beta>>, qubit |-> q - 1]]

Hadamards(n) == [q \in 1 .. n |-> [gate |-> "h", angle |-> << >>, qubit |-> q - 1]]

MeasureAll == << [gate |-> "measure_all", angle |-> << >>, qubit |-> -1] >>

create_parameterized_circuit(H, gs, bs, r) ==
    LET n == num_qubits(H)
    IN [num_qubits |-> n,
        ops |-> Hadamards(n)
                \o Concat([p \in 1 .. r |-> CostUnitary(H, gs[p]) \o MixerUnitary(n, bs[p])], 1)
                \o MeasureAll]

\* _create_qaoa_circuit with the mixer rotations of a layer before its cost rotations
create_qaoa_circuit_mixer_first(H, gamma, beta, r) ==
    LET n == num_qubits(H)
    IN [num_qubits |-> n,
        ops |-> Hadamards(n)
                \o Concat([p \in 1 .. r |-> MixerUnitary(n, beta) \o CostUnitary(H, gamma)], 1)
                \o MeasureAll]

create_qaoa_circuit(H, gamma, beta, r) ==
    LET n == num_qubits(H)
    IN [num_qubits |-> n,
        ops |-> Hadamards(n)
                \o Concat([p \in 1 .. r |-> CostUnitary(H, gamma) \o MixerUnitary(n, beta)], 1)
                \o MeasureAll]

\* cost_function, lines 379-407: the circuit one evaluation builds (qc, then its
\* copy with measure_all) from the rows gammas and betas of the reshaped params.
cost_function_circuit(H, gs, bs, r) ==
    LET n == num_qubits(H)
    IN [num_qubits |-> n,
        ops |-> Hadamards(n)
                \o Concat([p \in 1 .. r |-> CostUnitary(H, gs[p]) \o MixerUnitary(n, bs[p])], 1)
                \o MeasureAll]

\* QAOAPortfolioOptimizer.solve, lines 143-157: the library ansatz, bound and measured.
initial_params(r) == [k \in 1 .. 2 * r |-> IF (k - 1) % 2 = 0 THEN "0.0" ELSE "pi/2"]

bound_circuit(H, r) ==
    [num_qubits |-> num_qubits(H),
     ops |-> << [gate |-> "QAOAAnsatz", angle |-> initial_params(r), qubit |-> -1] >>
             \o MeasureAll]

(***************************************************************************)
(* Sample histograms: what get_counts() returns for a circuit of n qubits  *)
(* run with s shots.  Every bitstring has n characters, the counts are     *)
(* positive and sum to s; the keys come in any order.                      *)
(***************************************************************************)
Bitstrings(n) == [1 .. n -> {"0", "1"}]

RECURSIVE SumCounts(_, _)
SumCounts(c, k) == IF k > Len(c) THEN 0 ELSE c[k][2] + SumCounts(c, k + 1)

Histograms(n, s) ==
    UNION { { c \in [1 .. k -> Bitstrings(n) \X (1 .. s)] :
                /\ \A a, b \in 1 .. k : a # b => c[a][1] # c[b][1]
                /\ SumCounts(c, 1) = s } :
            k \in 1 .. s }

(***************************************************************************)
(* Solution extraction, solve_problem lines 335-341 (solve: 241-247).      *)
(***************************************************************************)
\* max() keeping the last of the keys of equal count instead of the first
RECURSIVE MaxByCountKeepingLast(_, _, _)
MaxByCountKeepingLast(c, k, best) ==
    IF k > Len(c) THEN best
    ELSE MaxByCountKeepingLast(c, k + 1, IF c[k][2] >= c[best][2] THEN k ELSE best)

RECURSIVE MaxByCount(_, _, _)
MaxByCount(c, k, best) ==
    IF k > Len(c) THEN best
    ELSE MaxByCount(c, k + 1, IF c[k][2] > c[best][2] THEN k ELSE best)

best_bitstring(c) == c[MaxByCount(c, 2, 1)][1]

int(bit) == IF bit = "1" THEN 1 ELSE 0

best_solution(bitstring) ==
    [q \in 1 .. Len(bitstring) |-> int(bitstring[Len(bitstring) + 1 - q])]

CountOf(c, key) == c[CHOOSE k \in DOMAIN c : c[k][1] = key][2]

(***************************************************************************)
(* The values returned to the caller.  A probability count / shots is the  *)
(* pair <<count, shots>>.                                                  *)
(***************************************************************************)
SolveResult(c, Q, s) ==
    LET best == best_bitstring(c)
        x == best_solution(best)
    IN [x |-> x, fval |-> calculate_objective_value(x, Q),
        probability |-> <<CountOf(c, best), s>>, counts |-> c, success |-> TRUE]

SolveProblemResult(c, Q, s) ==
    LET best == best_bitstring(c)
        x == best_solution(best)
    IN [solution |-> x, objective_value |-> calculate_objective_value(x, Q),
        probability |-> <<CountOf(c, best), s>>, counts |-> c, success |-> TRUE]

PortfolioResult(c, Q) ==
    LET x == best_solution(best_bitstring(c))
    IN [x |-> x, fval |-> calculate_objective_value(x, Q), counts |-> c, success |-> TRUE]

\* QAOAPortfolioOptimizer.solve, lines 186-197: the library's exact classical solver,
\* MinimumEigenOptimizer(NumPyMinimumEigensolver()).solve(qubo_problem).
ClassicalResults(qp) ==
    { [x |-> x, fval |-> expected_obj(qp, x), status |-> "SUCCESS"] :
        x \in { y \in BitVectors(qp.num_vars) :
                  \A z \in BitVectors(qp.num_vars) : expected_obj(qp, y) <= expected_obj(qp, z) } }

(***************************************************************************)
(* The parameter search, _optimize_parameters lines 443-499.  The library  *)
(* optimizers are COBYLA(maxiter=200, tol=1e-4) and SPSA(maxiter=100); the *)
(* model caps the evaluations they make at MaxEvals and lets them try and  *)
(* return the initial point or the initial point moved in one coordinate.  *)
(***************************************************************************)
COBYLA_maxiter == 200
SPSA_maxiter == 100

Min(a, b) == IF a <= b THEN a ELSE b

EvalBudget(name) ==
    IF name = "COBYLA" THEN Min(COBYLA_maxiter, MaxEvals) ELSE Min(2 * SPSA_maxiter, MaxEvals)

initial_point(r) == [k \in 1 .. 2 * r |-> IF k <= r THEN "0.8" ELSE "0.4"]

SearchPoints(r) ==
    {initial_point(r)}
    \cup { [initial_point(r) EXCEPT ![m] = "moved"] : m \in 1 .. 2 * r }

SearchEnds(name, n) ==
    IF name = "SPSA" THEN {"maxiter"}
    ELSE IF n < EvalBudget(name) THEN {"tolerance"}
    ELSE {"tolerance", "maxiter"}

\* cost_function run on the backend the call selected instead of its own simulator
cost_function_on_selected_backend(params, r) ==
    [gammas |-> SubSeq(params, 1, r), betas |-> SubSeq(params, r + 1, 2 * r),
     simulator |-> backend]

\* cost_function, lines 372-376 and 403: the parameters one evaluation runs with
\* and the simulator it runs on.  The energy it returns goes to the library
\* optimizer alone.
cost_function(params, r) ==
    [gammas |-> SubSeq(params, 1, r), betas |-> SubSeq(params, r + 1, 2 * r),
     simulator |-> "aer_simulator"]

(***************************************************************************)
(* Initial states.                                                         *)
(***************************************************************************)
Simple == {"solve", "solve_problem"}
Methods == Simple \cup {"portfolio_solve"}

LocalsUnset ==
    /\ qubo_matrix = Unset /\ hamiltonian = Unset /\ backend = None
    /\ gammas = << >> /\ betas = << >> /\ nfev = 0
    /\ qaoa_circuit = Unset /\ counts = << >> /\ solution = << >>
    /\ cost_eval = Unset /\ search_end = "none"
    /\ result = Unset /\ error = "none" /\ log = {} /\ jobs = << >>

\* Every problem of the bounds, called with reps = 1 and fixed parameters.
InitProblems ==
    /\ method \in Methods
    /\ IF method = "solve_problem"
       THEN qubo_dict \in Dicts /\ qubo_problem = None
       ELSE qubo_problem \in QuadraticPrograms /\ qubo_dict = None
    /\ reps = 1 /\ shots \in ShotsValues /\ self_backend = None
    /\ use_variational = FALSE /\ optimizer_name = "COBYLA"

\* Every configuration and argument, on the problems of at most one coefficient.
InitArguments ==
    /\ method \in Methods
    /\ IF method = "solve_problem"
       THEN qubo_dict \in SingleTermDicts /\ qubo_problem = None
       ELSE qubo_problem \in SingleTermPrograms /\ qubo_dict = None
    /\ reps \in RepsValues /\ shots \in ShotsValues
    /\ self_backend \in (IF method \in Simple THEN {None} \cup BackendNames ELSE {None})
    /\ use_variational \in (IF method \in Simple THEN BOOLEAN ELSE {FALSE})
    /\ optimizer_name \in (IF method \in Simple THEN OptimizerNames ELSE {"COBYLA"})

Init ==
    /\ pc = "start" /\ previous = Unset
    /\ LocalsUnset
    /\ (InitProblems \/ InitArguments)

(***************************************************************************)
(* The steps of solve, solve_problem and QAOAPortfolioOptimizer.solve.     *)
(***************************************************************************)
\* solve 202-212, solve_problem 280-292, portfolio 123-133
BuildMatrix ==
    /\ pc = "start" /\ method \in Methods
    /\ IF method = "solve_problem" /\ DOMAIN qubo_dict = {}
       THEN /\ error' = "ValueError" /\ pc' = "except"
            /\ UNCHANGED qubo_matrix
       ELSE /\ IF method = "solve_problem"
               THEN \E order \in KeyOrders(qubo_dict) :
                      qubo_matrix' = MatrixOfDict(qubo_dict, order)
               ELSE qubo_matrix' = MatrixOfProgram(qubo_problem)
            /\ pc' = "hamiltonian"
            /\ UNCHANGED error
    /\ UNCHANGED << previous, method, jobs, qubo_problem, qubo_dict, reps, shots, self_backend,
                    optimizer_name, use_variational, hamiltonian, backend, gammas,
                    betas, nfev, qaoa_circuit, counts, solution, cost_eval,
                    search_end, result, log >>

\* solve 215, solve_problem 295, portfolio 136
BuildHamiltonian ==
    /\ pc = "hamiltonian"
    /\ LET H == qubo_to_hamiltonian(qubo_matrix) IN
       IF H.error # "none"
       THEN /\ error' = H.error /\ pc' = "except"
            /\ UNCHANGED hamiltonian
       ELSE /\ hamiltonian' = [paulis |-> H.paulis, coeffs |-> H.coeffs]
            /\ pc' = "backend"
            /\ UNCHANGED error
    /\ UNCHANGED << previous, method, jobs, qubo_problem, qubo_dict, reps, shots, self_backend,
                    optimizer_name, use_variational, qubo_matrix, backend, gammas,
                    betas, nfev, qaoa_circuit, counts, solution, cost_eval,
                    search_end, result, log >>

\* solve_problem 297-312 without its try/except: the failure is raised
SelectBackendUnguarded ==
    /\ pc = "backend"
    /\ \E reachable \in BOOLEAN :
         IF method = "solve_problem" /\ self_backend # None
         THEN IF reachable
              THEN backend' = self_backend /\ pc' = "params" /\ UNCHANGED error
              ELSE error' = "IBMRuntimeError" /\ pc' = "except" /\ UNCHANGED backend
         ELSE backend' = "aer_simulator" /\ pc' = "params" /\ UNCHANGED error
    /\ UNCHANGED << previous, method, jobs, qubo_problem, qubo_dict, reps, shots, self_backend,
                    optimizer_name, use_variational, qubo_matrix, hamiltonian, gammas,
                    betas, nfev, qaoa_circuit, counts, solution, cost_eval,
                    search_end, result, log >>

\* solve_problem 297-312; solve 218 and portfolio 139 take the Aer simulator
SelectBackend ==
    /\ pc = "backend"
    /\ \E reachable \in BOOLEAN :
         IF method = "solve_problem" /\ self_backend # None
         THEN IF reachable
              THEN backend' = self_backend /\ UNCHANGED log
              ELSE backend' = "aer_simulator" /\ log' = log \cup {"warning:backend"}
         ELSE backend' = "aer_simulator" /\ UNCHANGED log
    /\ pc' = "params"
    /\ UNCHANGED << previous, method, jobs, qubo_problem, qubo_dict, reps, shots, self_backend,
                    optimizer_name, use_variational, qubo_matrix, hamiltonian, gammas,
                    betas, nfev, qaoa_circuit, counts, solution, cost_eval,
                    search_end, result, error >>

\* the parameter search entered whatever use_variational says
ChooseParametersAlwaysSearching ==
    /\ pc = "params"
    /\ IF method \in Simple
       THEN IF optimizer_name \in {"COBYLA", "SPSA"}
            THEN pc' = "search" /\ UNCHANGED << gammas, betas, error >>
            ELSE pc' = "except" /\ error' = "ValueError" /\ UNCHANGED << gammas, betas >>
       ELSE pc' = "circuit" /\ UNCHANGED << gammas, betas, error >>
    /\ UNCHANGED << previous, method, jobs, qubo_problem, qubo_dict, reps, shots, self_backend,
                    optimizer_name, use_variational, qubo_matrix, hamiltonian, backend,
                    nfev, qaoa_circuit, counts, solution, cost_eval, search_end,
                    result, log >>

\* _optimize_parameters taking COBYLA for a name it does not know
ChooseParametersUnchecked ==
    /\ pc = "params"
    /\ IF method \in Simple /\ use_variational
       THEN pc' = "search" /\ UNCHANGED << gammas, betas, error >>
       ELSE IF method \in Simple
            THEN /\ gammas' = [p \in 1 .. reps |-> "0.8"]
                 /\ betas' = [p \in 1 .. reps |-> "0.4"]
                 /\ pc' = "circuit" /\ UNCHANGED error
            ELSE pc' = "circuit" /\ UNCHANGED << gammas, betas, error >>
    /\ UNCHANGED << previous, method, jobs, qubo_problem, qubo_dict, reps, shots, self_backend,
                    optimizer_name, use_variational, qubo_matrix, hamiltonian, backend,
                    nfev, qaoa_circuit, counts, solution, cost_eval, search_end,
                    result, log >>

\* solve 220-234, solve_problem 314-328; _optimize_parameters 459-481
ChooseParameters ==
    /\ pc = "params"
    /\ IF method \in Simple /\ use_variational
       THEN IF optimizer_name \in {"COBYLA", "SPSA"}
            THEN pc' = "search" /\ UNCHANGED << gammas, betas, error >>
            ELSE pc' = "except" /\ error' = "ValueError" /\ UNCHANGED << gammas, betas >>
       ELSE IF method \in Simple
            THEN /\ gammas' = [p \in 1 .. reps |-> "0.8"]
                 /\ betas' = [p \in 1 .. reps |-> "0.4"]
                 /\ pc' = "circuit" /\ UNCHANGED error
            ELSE pc' = "circuit" /\ UNCHANGED << gammas, betas, error >>
    /\ UNCHANGED << previous, method, jobs, qubo_problem, qubo_dict, reps, shots, self_backend,
                    optimizer_name, use_variational, qubo_matrix, hamiltonian, backend,
                    nfev, qaoa_circuit, counts, solution, cost_eval, search_end,
                    result, log >>

\* one call of cost_function by optimizer.minimize, lines 372-439
CostEvaluation ==
    /\ pc = "search" /\ nfev < EvalBudget(optimizer_name)
    /\ \E params \in SearchPoints(reps), ran \in BOOLEAN :
         IF ran
         THEN /\ cost_eval' = cost_function(params, reps)
              /\ nfev' = nfev + 1
              /\ jobs' = Append(jobs, cost_eval'.simulator)
              /\ UNCHANGED << pc, error >>
         ELSE /\ error' = "AerError" /\ pc' = "except"
              /\ UNCHANGED << cost_eval, nfev, jobs >>
    /\ UNCHANGED << previous, method, qubo_problem, qubo_dict, reps, shots, self_backend,
                    optimizer_name, use_variational, qubo_matrix, hamiltonian, backend,
                    gammas, betas, qaoa_circuit, counts, solution, search_end,
                    result, log >>

\* _optimize_parameters raising when the optimizer stopped at maxiter
SearchReturnRaisingAtMaxiter ==
    /\ pc = "search" /\ nfev >= 1
    /\ optimizer_name = "COBYLA" \/ nfev = EvalBudget(optimizer_name)
    /\ \E x \in SearchPoints(reps), e \in SearchEnds(optimizer_name, nfev) :
         /\ search_end' = e
         /\ IF e = "maxiter"
            THEN /\ error' = "RuntimeError" /\ pc' = "except"
                 /\ UNCHANGED << gammas, betas, log >>
            ELSE /\ gammas' = SubSeq(x, 1, reps)
                 /\ betas' = SubSeq(x, reps + 1, 2 * reps)
                 /\ log' = log \cup {"info:nfev", "info:final_cost"}
                 /\ pc' = "circuit" /\ UNCHANGED error
    /\ cost_eval' = Unset
    /\ UNCHANGED << previous, method, jobs, qubo_problem, qubo_dict, reps, shots, self_backend,
                    optimizer_name, use_variational, qubo_matrix, hamiltonian, backend,
                    nfev, qaoa_circuit, counts, solution, result >>

\* optimizer.minimize returning only when the tolerance was met, never at maxiter
SearchReturnOnlyOnTolerance ==
    /\ pc = "search" /\ nfev >= 1
    /\ optimizer_name = "COBYLA" \/ nfev = EvalBudget(optimizer_name)
    /\ \E x \in SearchPoints(reps), e \in SearchEnds(optimizer_name, nfev) \ {"maxiter"} :
         /\ gammas' = SubSeq(x, 1, reps)
         /\ betas' = SubSeq(x, reps + 1, 2 * reps)
         /\ search_end' = e
    /\ cost_eval' = Unset
    /\ log' = log \cup {"info:nfev", "info:final_cost"}
    /\ pc' = "circuit"
    /\ UNCHANGED << previous, method, jobs, qubo_problem, qubo_dict, reps, shots, self_backend,
                    optimizer_name, use_variational, qubo_matrix, hamiltonian, backend,
                    nfev, qaoa_circuit, counts, solution, result, error >>

\* optimizer.minimize returns, _optimize_parameters 484-499
SearchReturn ==
    /\ pc = "search" /\ nfev >= 1
    /\ optimizer_name = "COBYLA" \/ nfev = EvalBudget(optimizer_name)
    /\ \E x \in SearchPoints(reps), e \in SearchEnds(optimizer_name, nfev) :
         /\ gammas' = SubSeq(x, 1, reps)
         /\ betas' = SubSeq(x, reps + 1, 2 * reps)
         /\ search_end' = e
    /\ cost_eval' = Unset
    /\ log' = log \cup {"info:nfev", "info:final_cost"}
    /\ pc' = "circuit"
    /\ UNCHANGED << previous, method, jobs, qubo_problem, qubo_dict, reps, shots, self_backend,
                    optimizer_name, use_variational, qubo_matrix, hamiltonian, backend,
                    nfev, qaoa_circuit, counts, solution, result, error >>

\* the circuit construction refusing more than one qubit
BuildCircuitUnderCeiling ==
    /\ pc = "circuit"
    /\ IF num_qubits(hamiltonian) > 1
       THEN /\ error' = "ResourceExceeded" /\ pc' = "except"
            /\ UNCHANGED qaoa_circuit
       ELSE /\ qaoa_circuit' =
                 (IF method = "portfolio_solve" THEN bound_circuit(hamiltonian, reps)
                  ELSE IF use_variational
                       THEN create_parameterized_circuit(hamiltonian, gammas, betas, reps)
                  ELSE create_qaoa_circuit(hamiltonian, "0.8", "0.4", reps))
            /\ pc' = "execute" /\ UNCHANGED error
    /\ UNCHANGED << previous, method, jobs, qubo_problem, qubo_dict, reps, shots, self_backend,
                    optimizer_name, use_variational, qubo_matrix, hamiltonian, backend,
                    gammas, betas, nfev, counts, solution, cost_eval, search_end,
                    result, log >>

\* solve 226/234, solve_problem 320/328, portfolio 143-157
BuildCircuit ==
    /\ pc = "circuit"
    /\ \E built \in BOOLEAN :
         IF method = "portfolio_solve"
         THEN IF built
              THEN /\ qaoa_circuit' = bound_circuit(hamiltonian, reps)
                   /\ pc' = "execute" /\ UNCHANGED error
              ELSE /\ error' = "AttributeError" /\ pc' = "except"
                   /\ UNCHANGED qaoa_circuit
         ELSE /\ qaoa_circuit' =
                   (IF use_variational
                    THEN create_parameterized_circuit(hamiltonian, gammas, betas, reps)
                    ELSE create_qaoa_circuit(hamiltonian, "0.8", "0.4", reps))
              /\ pc' = "execute" /\ UNCHANGED error
    /\ UNCHANGED << previous, method, jobs, qubo_problem, qubo_dict, reps, shots, self_backend,
                    optimizer_name, use_variational, qubo_matrix, hamiltonian, backend,
                    gammas, betas, nfev, counts, solution, cost_eval, search_end,
                    result, log >>

\* the circuit run without shots=self.shots: the backend takes a shot count of its own
ExecuteWithOtherShots ==
    /\ pc = "execute"
    /\ \E ran \in BOOLEAN :
         IF ran
         THEN \E c \in Histograms(qaoa_circuit.num_qubits, shots + 1) :
                /\ counts' = c
                /\ result' = (IF method = "solve" THEN SolveResult(c, qubo_matrix, shots)
                              ELSE IF method = "solve_problem"
                                   THEN SolveProblemResult(c, qubo_matrix, shots)
                              ELSE PortfolioResult(c, qubo_matrix))
                /\ jobs' = Append(jobs, backend)
                /\ pc' = "done" /\ UNCHANGED error
         ELSE /\ error' = "AerError" /\ pc' = "except"
              /\ UNCHANGED << counts, result, jobs >>
    /\ UNCHANGED << previous, method, qubo_problem, qubo_dict, reps, shots, self_backend,
                    optimizer_name, use_variational, qubo_matrix, hamiltonian, backend,
                    gammas, betas, nfev, qaoa_circuit, solution, cost_eval,
                    search_end, log >>

\* solve 236-259, solve_problem 330-353, portfolio 159-180
Execute ==
    /\ pc = "execute"
    /\ \E ran \in BOOLEAN :
         IF ran
         THEN \E c \in Histograms(qaoa_circuit.num_qubits, shots) :
                /\ counts' = c
                /\ result' = (IF method = "solve" THEN SolveResult(c, qubo_matrix, shots)
                              ELSE IF method = "solve_problem"
                                   THEN SolveProblemResult(c, qubo_matrix, shots)
                              ELSE PortfolioResult(c, qubo_matrix))
                /\ jobs' = Append(jobs, backend)
                /\ pc' = "done" /\ UNCHANGED error
         ELSE /\ error' = "AerError" /\ pc' = "except"
              /\ UNCHANGED << counts, result, jobs >>
    /\ UNCHANGED << previous, method, qubo_problem, qubo_dict, reps, shots, self_backend,
                    optimizer_name, use_variational, qubo_matrix, hamiltonian, backend,
                    gammas, betas, nfev, qaoa_circuit, solution, cost_eval,
                    search_end, log >>

\* the portfolio handler re-raising like the handlers of SimpleQAOAOptimizer
ExceptReraising ==
    /\ pc = "except"
    /\ log' = log \cup {"error"} /\ pc' = "raised"
    /\ UNCHANGED << previous, method, jobs, qubo_problem, qubo_dict, reps, shots, self_backend,
                    optimizer_name, use_variational, qubo_matrix, hamiltonian, backend,
                    gammas, betas, nfev, qaoa_circuit, counts, solution, cost_eval,
                    search_end, result, error >>

\* solve 261-263, solve_problem 355-357, portfolio 182-185
Except ==
    /\ pc = "except"
    /\ IF method \in Simple
       THEN log' = log \cup {"error"} /\ pc' = "raised"
       ELSE log' = log \cup {"error", "info:fallback"} /\ pc' = "fallback"
    /\ UNCHANGED << previous, method, jobs, qubo_problem, qubo_dict, reps, shots, self_backend,
                    optimizer_name, use_variational, qubo_matrix, hamiltonian, backend,
                    gammas, betas, nfev, qaoa_circuit, counts, solution, cost_eval,
                    search_end, result, error >>

\* the fallback handler returning a failure result instead of re-raising
FallbackReportingFailure ==
    /\ pc = "fallback"
    /\ \E solved \in BOOLEAN :
         IF solved
         THEN /\ result' \in ClassicalResults(qubo_problem)
              /\ error' = "none" /\ pc' = "done"
              /\ log' = log \cup {"info:classical"}
         ELSE /\ result' = [success |-> FALSE, message |-> "ImportError"]
              /\ error' = "none" /\ pc' = "done"
              /\ log' = log \cup {"error:fallback"}
    /\ UNCHANGED << previous, method, jobs, qubo_problem, qubo_dict, reps, shots, self_backend,
                    optimizer_name, use_variational, qubo_matrix, hamiltonian, backend,
                    gammas, betas, nfev, qaoa_circuit, counts, solution, cost_eval,
                    search_end >>

\* portfolio 186-200
Fallback ==
    /\ pc = "fallback"
    /\ \E solved \in BOOLEAN :
         IF solved
         THEN /\ result' \in ClassicalResults(qubo_problem)
              /\ error' = "none" /\ pc' = "done"
              /\ log' = log \cup {"info:classical"}
         ELSE /\ error' = "ImportError" /\ pc' = "raised"
              /\ log' = log \cup {"error:fallback"}
              /\ UNCHANGED result
    /\ UNCHANGED << previous, method, jobs, qubo_problem, qubo_dict, reps, shots, self_backend,
                    optimizer_name, use_variational, qubo_matrix, hamiltonian, backend,
                    gammas, betas, nfev, qaoa_circuit, counts, solution, cost_eval,
                    search_end >>

Next ==
    \/ BuildMatrix \/ BuildHamiltonian \/ SelectBackend \/ ChooseParameters
    \/ CostEvaluation \/ SearchReturn \/ BuildCircuit \/ Execute
    \/ Except \/ Fallback

Spec == Init /\ [][Next]_vars

(***************************************************************************)
(* The calls again, on the problems of one variable, every configuration   *)
(* and argument, with the interpreter running the called method on: a step *)
(* that can be taken is eventually taken.                                  *)
(***************************************************************************)
InitLive ==
    /\ pc = "start" /\ previous = Unset
    /\ LocalsUnset
    /\ method \in Methods
    /\ IF method = "solve_problem"
       THEN qubo_dict \in DictsWith(1, 1) /\ qubo_problem = None
       ELSE qubo_problem \in ProgramsWith(1, 1) /\ qubo_dict = None
    /\ reps \in RepsValues /\ shots \in ShotsValues
    /\ self_backend \in (IF method \in Simple THEN {None} \cup BackendNames ELSE {None})
    /\ use_variational \in (IF method \in Simple THEN BOOLEAN ELSE {FALSE})
    /\ optimizer_name \in (IF method \in Simple THEN OptimizerNames ELSE {"COBYLA"})

\* every step of a call moves pc or counts an evaluation
SpecLive == InitLive /\ [][Next]_vars /\ WF_<<pc, nfev>>(Next)

(***************************************************************************)
(* _qubo_to_hamiltonian, the energy rule of cost_function and              *)
(* _calculate_objective_value called on their own, on every matrix of the  *)
(* bounds (square or not) and every bit vector.                            *)
(***************************************************************************)
InitHam ==
    /\ method = "_qubo_to_hamiltonian" /\ previous = Unset
    /\ qubo_matrix \in Matrices
    /\ pc = "call"
    /\ qubo_problem = None /\ qubo_dict = None
    /\ reps = 1 /\ shots \in ShotsValues /\ self_backend = None
    /\ use_variational = FALSE /\ optimizer_name = "COBYLA"
    /\ hamiltonian = Unset /\ backend = None
    /\ gammas = << >> /\ betas = << >> /\ nfev = 0
    /\ qaoa_circuit = Unset /\ counts = << >> /\ solution = << >>
    /\ cost_eval = Unset /\ search_end = "none"
    /\ result = Unset /\ error = "none" /\ log = {} /\ jobs = << >>

HamiltonianCall ==
    /\ pc = "call"
    /\ LET H == qubo_to_hamiltonian(qubo_matrix) IN
       IF H.error # "none"
       THEN /\ error' = H.error /\ pc' = "raised"
            /\ UNCHANGED hamiltonian
       ELSE /\ hamiltonian' = [paulis |-> H.paulis, coeffs |-> H.coeffs]
            /\ pc' = "returned"
            /\ UNCHANGED error
    /\ UNCHANGED << previous, method, jobs, qubo_problem, qubo_dict, reps, shots, self_backend,
                    optimizer_name, use_variational, qubo_matrix, backend, gammas,
                    betas, nfev, qaoa_circuit, counts, solution, cost_eval,
                    search_end, result, log >>

Evaluate ==
    /\ pc = "returned"
    /\ \E x \in BitVectors(qubo_matrix.rows) :
         /\ solution' = x
         /\ result' = [energy |-> bitstring_energy(hamiltonian, x),
                       objective |-> calculate_objective_value(x, qubo_matrix)]
    /\ pc' = "evaluated"
    /\ UNCHANGED << previous, method, jobs, qubo_problem, qubo_dict, reps, shots, self_backend,
                    optimizer_name, use_variational, qubo_matrix, hamiltonian, backend,
                    gammas, betas, nfev, qaoa_circuit, counts, cost_eval, search_end,
                    error, log >>

\* a second call of _qubo_to_hamiltonian on the same matrix
HamiltonianCallAgain ==
    /\ pc = "returned"
    /\ previous' = hamiltonian
    /\ LET H == qubo_to_hamiltonian(qubo_matrix) IN
         hamiltonian' = [paulis |-> H.paulis, coeffs |-> H.coeffs]
    /\ pc' = "returned_again"
    /\ UNCHANGED << method, jobs, qubo_problem, qubo_dict, reps, shots, self_backend,
                    optimizer_name, use_variational, qubo_matrix, backend, gammas,
                    betas, nfev, qaoa_circuit, counts, solution, cost_eval,
                    search_end, result, error, log >>

\* The variables relabelled by a permutation pi of 0 .. n-1: variable i becomes pi[i].
Relabellings(n) ==
    { pi \in [Indices(n) -> Indices(n)] : \A a, b \in Indices(n) : a # b => pi[a] # pi[b] }

Relabelled(Q, pi) ==
    LET inv == [a \in Indices(Q.rows) |-> CHOOSE i \in Indices(Q.rows) : pi[i] = a]
    IN [rows |-> Q.rows, cols |-> Q.cols,
        at |-> [p \in Cells(Q.rows, Q.cols) |-> Q.at[<<inv[p[1]], inv[p[2]]>>]]]

Permuted(x, pi) ==
    [q \in 1 .. Len(x) |-> x[(CHOOSE i \in Indices(Len(x)) : pi[i] = q - 1) + 1]]

\* _qubo_to_hamiltonian called on the relabelled matrix
RelabelledCall ==
    /\ pc = "returned" /\ qubo_matrix.rows = qubo_matrix.cols
    /\ \E pi \in Relabellings(qubo_matrix.rows) :
         LET Q2 == Relabelled(qubo_matrix, pi)
             H == qubo_to_hamiltonian(Q2)
         IN result' = [pi |-> pi, qubo_matrix |-> Q2,
                       hamiltonian |-> [paulis |-> H.paulis, coeffs |-> H.coeffs]]
    /\ pc' = "relabelled"
    /\ UNCHANGED << previous, method, jobs, qubo_problem, qubo_dict, reps, shots, self_backend,
                    optimizer_name, use_variational, qubo_matrix, hamiltonian, backend,
                    gammas, betas, nfev, qaoa_circuit, counts, solution, cost_eval,
                    search_end, error, log >>

NextHam == HamiltonianCall \/ Evaluate \/ HamiltonianCallAgain \/ RelabelledCall

SpecHam == InitHam /\ [][NextHam]_vars

(***************************************************************************)
(* The sample problem of test_simple_qaoa.py (create_sample_qubo_problem), *)
(* solved under every configuration.                                       *)
(***************************************************************************)
SampleProgram ==
    [num_vars |-> 3,
     linear |-> (0 :> -1) @@ (1 :> -1) @@ (2 :> -2),
     quadratic |-> (<<0, 1>> :> 2) @@ (<<0, 2>> :> 1)]

InitSample ==
    /\ pc = "start" /\ previous = Unset
    /\ LocalsUnset
    /\ method \in {"solve", "portfolio_solve"}
    /\ qubo_problem = SampleProgram /\ qubo_dict = None
    /\ reps \in RepsValues /\ shots \in ShotsValues /\ self_backend = None
    /\ use_variational \in (IF method \in Simple THEN BOOLEAN ELSE {FALSE})
    /\ optimizer_name \in (IF use_variational THEN OptimizerNames ELSE {"COBYLA"})

SpecSample == InitSample /\ [][Next]_vars

(***************************************************************************)
(* Two calls in a row on the same problem with the same reps and shots, as *)
(* test_variational_qaoa.py makes them: the first with fixed parameters,   *)
(* the second with fixed parameters again or with a parameter search.      *)
(***************************************************************************)
InitTwice ==
    /\ pc = "start" /\ previous = Unset
    /\ LocalsUnset
    /\ method \in Simple
    /\ IF method = "solve_problem"
       THEN qubo_dict \in SingleTermDicts /\ qubo_problem = None
       ELSE qubo_problem \in SingleTermPrograms /\ qubo_dict = None
    /\ reps = 1 /\ shots \in ShotsValues /\ self_backend = None
    /\ use_variational = FALSE /\ optimizer_name = "COBYLA"

\* What the caller keeps of a result: every field but the diagnostic histogram.
Kept(r) == [k \in DOMAIN r \ {"counts"} |-> r[k]]

\* a second call that finds the Hamiltonian and the parameters of the first
CallAgainKeepingLocals ==
    /\ pc = "done" /\ previous = Unset
    /\ previous' = [result |-> Kept(result), use_variational |-> use_variational,
                    optimizer_name |-> optimizer_name]
    /\ use_variational' \in BOOLEAN
    /\ optimizer_name' \in (IF use_variational' THEN {"COBYLA", "SPSA"} ELSE {"COBYLA"})
    /\ pc' = "start" /\ jobs' = << >>
    /\ qubo_matrix' = Unset /\ backend' = None
    /\ nfev' = 0
    /\ qaoa_circuit' = Unset /\ counts' = << >>
    /\ cost_eval' = Unset /\ search_end' = "none"
    /\ result' = Unset /\ error' = "none" /\ log' = {}
    /\ UNCHANGED << method, qubo_problem, qubo_dict, reps, shots, self_backend, solution,
                    hamiltonian, gammas, betas >>

CallAgain ==
    /\ pc = "done" /\ previous = Unset
    /\ previous' = [result |-> Kept(result), use_variational |-> use_variational,
                    optimizer_name |-> optimizer_name]
    /\ use_variational' \in BOOLEAN
    /\ optimizer_name' \in (IF use_variational' THEN {"COBYLA", "SPSA"} ELSE {"COBYLA"})
    /\ pc' = "start" /\ jobs' = << >>
    /\ qubo_matrix' = Unset /\ hamiltonian' = Unset /\ backend' = None
    /\ gammas' = << >> /\ betas' = << >> /\ nfev' = 0
    /\ qaoa_circuit' = Unset /\ counts' = << >>
    /\ cost_eval' = Unset /\ search_end' = "none"
    /\ result' = Unset /\ error' = "none" /\ log' = {}
    /\ UNCHANGED << method, qubo_problem, qubo_dict, reps, shots, self_backend, solution >>

NextTwice ==
    \/ BuildMatrix \/ BuildHamiltonian \/ SelectBackend \/ ChooseParameters
    \/ CostEvaluation \/ SearchReturn \/ BuildCircuit \/ Execute
    \/ Except \/ CallAgain

SpecTwice == InitTwice /\ [][NextTwice]_vars

(***************************************************************************)
(* The cost function called on its own: the Hamiltonian of a square matrix *)
(* and the value lines 413-439 compute from a histogram.  The value is the *)
(* pair <<sum of count * energy, total_shots>>, energies in quarter units. *)
(***************************************************************************)
CostShots == {2, 3}

\* solution = [int(bit) for bit in bitstring[::-1]], lines 418-419
RECURSIVE WeightedEnergy(_, _, _)
WeightedEnergy(H, c, k) ==
    IF k > Len(c) THEN 0
    ELSE bitstring_energy(H, best_solution(c[k][1])) * c[k][2]
         + WeightedEnergy(H, c, k + 1)

cost_function_energy(H, c) == << WeightedEnergy(H, c, 1), SumCounts(c, 1) >>

InitCost ==
    /\ method = "cost_function" /\ previous = Unset
    /\ qubo_matrix \in {Q \in Matrices : Q.rows = Q.cols /\ Q.rows <= MaxN}
    /\ pc = "call"
    /\ qubo_problem = None /\ qubo_dict = None
    /\ reps = 1 /\ shots \in CostShots /\ self_backend = None
    /\ use_variational = TRUE /\ optimizer_name = "COBYLA"
    /\ hamiltonian = Unset /\ backend = None
    /\ gammas = << >> /\ betas = << >> /\ nfev = 0
    /\ qaoa_circuit = Unset /\ counts = << >> /\ solution = << >>
    /\ cost_eval = Unset /\ search_end = "none"
    /\ result = Unset /\ error = "none" /\ log = {} /\ jobs = << >>

\* cost_function, lines 402-439: the circuit is sampled and the histogram averaged
CostFunctionCall ==
    /\ pc = "returned" /\ method = "cost_function"
    /\ \E c \in Histograms(num_qubits(hamiltonian), shots) :
         /\ counts' = c
         /\ result' = [energy |-> cost_function_energy(hamiltonian, c)]
    /\ nfev' = nfev + 1
    /\ jobs' = Append(jobs, "aer_simulator")
    /\ pc' = "costed"
    /\ UNCHANGED << previous, method, qubo_problem, qubo_dict, reps, shots, self_backend,
                    optimizer_name, use_variational, qubo_matrix, hamiltonian, backend,
                    gammas, betas, qaoa_circuit, solution, cost_eval, search_end,
                    error, log >>

NextCost == HamiltonianCall \/ CostFunctionCall

SpecCost == InitCost /\ [][NextCost]_vars

(***************************************************************************)
(* One problem in its two input forms: the QuadraticProgram solve takes    *)
(* and a dict solve_problem takes, with the linear coefficients on (i, i)  *)
(* keys and each pair under (i, j) or (j, i).  The matrix of each form is  *)
(* built as solve (lines 202-212) and solve_problem (lines 280-292) build  *)
(* it.                                                                     *)
(***************************************************************************)
\* The programs whose quadratic coefficients are all on pairs of two variables.
PairPrograms == {qp \in QuadraticPrograms : \A p \in DOMAIN qp.quadratic : p[1] # p[2]}

\* The dict of qp: the pairs of F under (j, i), the others under (i, j), and a
\* key (i, i) with 0.0 for the variables of Z, which have no linear coefficient.
DictForm(qp, F, Z) ==
    LET key(p) == IF p \in F THEN <<p[2], p[1]>> ELSE p
        keys == {<<i, i>> : i \in DOMAIN qp.linear \cup Z} \cup {key(p) : p \in DOMAIN qp.quadratic}
    IN [k \in keys |->
          IF k[1] = k[2] THEN (IF k[1] \in DOMAIN qp.linear THEN qp.linear[k[1]] ELSE 0)
          ELSE IF k \in DOMAIN qp.quadratic THEN qp.quadratic[k]
          ELSE qp.quadratic[<<k[2], k[1]>>]]

DictForms(qp) ==
    { DictForm(qp, F, Z) : F \in SUBSET DOMAIN qp.quadratic,
                           Z \in SUBSET (Indices(qp.num_vars) \ DOMAIN qp.linear) }

InitForms ==
    /\ method = "both_forms" /\ previous = Unset
    /\ qubo_problem \in PairPrograms
    /\ qubo_dict \in DictForms(qubo_problem)
    /\ pc = "start" /\ LocalsUnset
    /\ reps = 1 /\ shots \in ShotsValues /\ self_backend = None
    /\ use_variational = FALSE /\ optimizer_name = "COBYLA"

\* solve, lines 202-212
ProgramMatrix ==
    /\ pc = "start" /\ method = "both_forms"
    /\ qubo_matrix' = MatrixOfProgram(qubo_problem)
    /\ pc' = "program_matrix"
    /\ UNCHANGED << previous, method, jobs, qubo_problem, qubo_dict, reps, shots, self_backend,
                    optimizer_name, use_variational, hamiltonian, backend, gammas,
                    betas, nfev, qaoa_circuit, counts, solution, cost_eval,
                    search_end, result, error, log >>

\* solve_problem, lines 280-292; the matrix of the program is kept in previous
DictMatrix ==
    /\ pc = "program_matrix"
    /\ IF DOMAIN qubo_dict = {}
       THEN /\ error' = "ValueError" /\ pc' = "raised"
            /\ UNCHANGED << previous, qubo_matrix >>
       ELSE /\ previous' = qubo_matrix
            /\ \E order \in KeyOrders(qubo_dict) :
                 qubo_matrix' = MatrixOfDict(qubo_dict, order)
            /\ pc' = "dict_matrix"
            /\ UNCHANGED error
    /\ UNCHANGED << method, jobs, qubo_problem, qubo_dict, reps, shots, self_backend,
                    optimizer_name, use_variational, hamiltonian, backend, gammas,
                    betas, nfev, qaoa_circuit, counts, solution, cost_eval,
                    search_end, result, log >>

NextForms == ProgramMatrix \/ DictMatrix

SpecForms == InitForms /\ [][NextForms]_vars

(***************************************************************************)
(* What the caller reads in a returned result.                             *)
(***************************************************************************)
Returned == pc = "done"
Sampled == pc = "done" /\ counts # << >>
ReturnedVector == IF method = "solve_problem" THEN result.solution ELSE result.x
ReturnedValue == IF method = "solve_problem" THEN result.objective_value ELSE result.fval

RECURSIVE LexLess(_, _, _)
LexLess(a, b, k) ==
    IF k > Len(a) THEN FALSE
    ELSE IF a[k] = b[k] THEN LexLess(a, b, k + 1)
    ELSE a[k] = "0"

\* The position in counts of the bitstring the returned vector was read from.
Selected == CHOOSE k \in DOMAIN counts : best_solution(counts[k][1]) = ReturnedVector

\* The keys the result dict of solve / solve_problem / portfolio solve is built with.
ResultKeys ==
    IF method = "solve" THEN {"x", "fval", "probability", "counts", "success"}
    ELSE IF method = "solve_problem"
         THEN {"solution", "objective_value", "probability", "counts", "success"}
    ELSE {"x", "fval", "counts", "success"}

(***************************************************************************)
(* C1.  For every square QUBO matrix and every bit vector x, the energy of *)
(* the Hamiltonian _qubo_to_hamiltonian builds, computed on x by the rule  *)
(* of cost_function (Z -> 1 - 2 x), equals _calculate_objective_value(x).  *)
(* Energies are kept in quarter units, hence the factor 4.                 *)
(***************************************************************************)
C1_EnergyEqualsObjective ==
    (pc = "evaluated" /\ qubo_matrix.rows = qubo_matrix.cols)
        => result.energy = 4 * result.objective

(***************************************************************************)
(* C2.  The fval of the result solve returns equals the QuadraticProgram's *)
(* own linear-plus-quadratic objective on the returned x, whatever the     *)
(* histogram, diagonal quadratic entries included.                         *)
(***************************************************************************)
C2_FvalIsOriginalObjective ==
    (Sampled /\ method = "solve")
        => result.fval = expected_obj(qubo_problem, result.x)

(***************************************************************************)
(* C3.  The sample problem: as stated, the result for x = [0,0,1] has fval *)
(* -3 and no assignment has a lower objective.                             *)
(***************************************************************************)
C3_MinimumAtZeroZeroOne ==
    (Sampled /\ method = "solve" /\ result.x = <<0, 0, 1>>)
        => /\ result.fval = -3
           /\ \A z \in BitVectors(3) : expected_obj(SampleProgram, z) >= result.fval

(***************************************************************************)
(* C3, amended.  The minimum objective of the sample problem is -3 and is  *)
(* attained at x = [0,1,1] only; whatever the histogram, solve returns the *)
(* problem's objective of the returned x: -3 for [0,1,1], -2 for [0,0,1].  *)
(***************************************************************************)
C3_MinimumAtZeroOneOne ==
    /\ \A z \in BitVectors(3) : expected_obj(SampleProgram, z) >= -3
    /\ {z \in BitVectors(3) : expected_obj(SampleProgram, z) = -3} = {<<0, 1, 1>>}
    /\ (Sampled /\ method = "solve" /\ qubo_problem = SampleProgram)
        => /\ result.fval = expected_obj(SampleProgram, result.x)
           /\ result.x = <<0, 1, 1>> => result.fval = -3
           /\ result.x = <<0, 0, 1>> => result.fval = -2

C3_Witness ==
    /\ Sampled /\ method = "solve" /\ qubo_problem = SampleProgram
    /\ result.x = <<0, 0, 1>> /\ Len(counts) = 2

(***************************************************************************)
(* C4.  As stated: the selected bitstring has the maximum count and is the *)
(* lexicographically lowest of the bitstrings with that count.             *)
(***************************************************************************)
C4_TieToLexicographicallyLowest ==
    Sampled =>
        /\ \A j \in DOMAIN counts : counts[j][2] <= counts[Selected][2]
        /\ \A j \in DOMAIN counts :
             counts[j][2] = counts[Selected][2]
                 => ~LexLess(counts[j][1], counts[Selected][1], 1)

(***************************************************************************)
(* C4, amended.  The selected bitstring has the maximum count, and among   *)
(* the bitstrings with that count it is the first in the histogram's       *)
(* iteration order.                                                        *)
(***************************************************************************)
C4_TieToFirstInOrder ==
    Sampled =>
        /\ \E k \in DOMAIN counts : best_solution(counts[k][1]) = ReturnedVector
        /\ \A j \in DOMAIN counts : counts[j][2] <= counts[Selected][2]
        /\ \A j \in DOMAIN counts : j < Selected => counts[j][2] < counts[Selected][2]

C4_Witness ==
    /\ Sampled /\ Len(counts) = 2 /\ counts[1][2] = counts[2][2]
    /\ LexLess(counts[2][1], counts[1][1], 1)
    /\ Selected = 1

(***************************************************************************)
(* C5.  As stated: once a step of the pipeline has failed, the classical   *)
(* fallback is invoked and the failure is not raised to the caller.        *)
(***************************************************************************)
C5_EveryFailureFallsBack ==
    /\ "error" \in log => "info:fallback" \in log
    /\ pc = "raised" => "error:fallback" \in log

(***************************************************************************)
(* C5, amended.  SimpleQAOAOptimizer.solve and solve_problem log a failed  *)
(* step and raise it again: no fallback runs and no result is returned.    *)
(* QAOAPortfolioOptimizer.solve runs the classical fallback after a failed *)
(* step and returns the fallback's result; it raises only when the         *)
(* fallback itself failed.                                                 *)
(***************************************************************************)
C5_FallbackOnlyInPortfolio ==
    /\ method \in Simple =>
         /\ pc # "fallback" /\ "info:fallback" \notin log
         /\ "error" \in log => (pc = "raised" /\ error # "none" /\ result = Unset)
    /\ method = "portfolio_solve" =>
         /\ "error" \in log => "info:fallback" \in log
         /\ pc = "raised" => ("error:fallback" \in log /\ error # "none" /\ result = Unset)
         /\ (Returned /\ "error" \in log) => result \in ClassicalResults(qubo_problem)

C5_Witness ==
    /\ method = "portfolio_solve" /\ Returned /\ "error" \in log
    /\ result \in ClassicalResults(qubo_problem)

C7_BackendFailureRecovered ==
    /\ [][(pc = "backend" /\ method = "solve_problem" /\ self_backend # None) =>
            /\ pc' = "params" /\ error' = "none"
            /\ \/ backend' = self_backend /\ log' = log
               \/ backend' = "aer_simulator" /\ log' = log \cup {"warning:backend"}]_vars
    /\ []((Returned /\ "warning:backend" \in log) =>
            (backend = "aer_simulator" /\ error = "none" /\ result.success = TRUE))

C7_Witness ==
    /\ method = "solve_problem" /\ self_backend # None
    /\ Returned /\ "warning:backend" \in log
    /\ backend = "aer_simulator" /\ result.success = TRUE

(***************************************************************************)
(* C8.  A matrix whose row count differs from its column count, or with no *)
(* variables, makes _qubo_to_hamiltonian raise: nothing is returned.       *)
(***************************************************************************)
C8_MalformedRejected ==
    (pc # "call" /\ (qubo_matrix.rows # qubo_matrix.cols \/ qubo_matrix.rows = 0))
        => (pc = "raised" /\ error # "none")

(***************************************************************************)
(* C9.  As stated: there is a ceiling on the number of qubits, and no      *)
(* circuit of more qubits than the ceiling is built.                       *)
(***************************************************************************)
C9_CeilingEnforced ==
    \E ceiling \in 1 .. (MaxN - 1) :
        qaoa_circuit # Unset => qaoa_circuit.num_qubits <= ceiling

(***************************************************************************)
(* C9, amended.  There is no ceiling: ResourceExceeded is never raised,    *)
(* and every circuit that is built and run has as many qubits as the       *)
(* problem has variables.                                                  *)
(***************************************************************************)
C9_NoCeiling ==
    /\ error # "ResourceExceeded"
    /\ qaoa_circuit # Unset => qaoa_circuit.num_qubits = qubo_matrix.rows
    /\ Sampled => \A k \in DOMAIN counts : Len(counts[k][1]) = qubo_matrix.rows

C9_Witness ==
    /\ Sampled /\ method = "solve_problem"
    /\ qubo_matrix.rows = MaxN /\ qaoa_circuit.num_qubits = MaxN

(***************************************************************************)
(* C10.  As stated: the result or the log of a solve whose search stopped  *)
(* at maxiter carries a record of it.                                      *)
(***************************************************************************)
C10_NonConvergenceFlagged ==
    (Returned /\ search_end = "maxiter") =>
        \/ DOMAIN result \ ResultKeys # {}
        \/ result.success = FALSE
        \/ log \ {"info:nfev", "info:final_cost", "warning:backend"} # {}

(***************************************************************************)
(* C10, amended.  A search that stopped at maxiter raises no error: the    *)
(* point the optimizer returned is split into gammas and betas, the        *)
(* circuit is built from them, and the result has the usual keys with      *)
(* success = true; neither the result nor the log records the              *)
(* non-convergence.                                                        *)
(***************************************************************************)
C10_MaxiterUnflagged ==
    search_end = "maxiter" =>
        /\ error \in {"none", "AerError"}
        /\ gammas \o betas \in SearchPoints(reps)
        /\ Len(gammas) = reps /\ Len(betas) = reps
        /\ qaoa_circuit # Unset =>
             qaoa_circuit = create_parameterized_circuit(hamiltonian, gammas, betas, reps)
        /\ Returned => (DOMAIN result = ResultKeys /\ result.success = TRUE)
        /\ log \subseteq {"info:nfev", "info:final_cost", "warning:backend", "error"}

C10_Witness ==
    /\ Returned /\ search_end = "maxiter" /\ optimizer_name = "COBYLA"
    /\ nfev = MaxEvals /\ gammas \o betas # initial_point(reps)

\* The second of two calls has returned.
SecondReturned == pc = "done" /\ previous # Unset

SameArguments ==
    /\ previous.use_variational = use_variational
    /\ previous.optimizer_name = optimizer_name

PreviousVector ==
    IF method = "solve_problem" THEN previous.result.solution ELSE previous.result.x
PreviousValue ==
    IF method = "solve_problem" THEN previous.result.objective_value
    ELSE previous.result.fval

ZSet(pauli_str) == {q - 1 : q \in {k \in DOMAIN pauli_str : pauli_str[k] = "Z"}}

SetMin(S) == CHOOSE m \in S : \A e \in S : m <= e

\* The terms of H come as stated for the matrix Q: first one Z_i term per diagonal
\* entry, i increasing; then for each pair (i, j), i < j, in lexicographic order the
\* terms Z_i Z_j, Z_i, Z_j; the constant term, if any, last.
TermsInStatedOrder(H, Q) ==
    LET L == Len(H.paulis)
        Z(k) == ZSet(H.paulis[k])
    IN \E a \in 0 .. L, g \in 0 .. L :
         /\ a + 3 * g <= L /\ L - (a + 3 * g) <= 1
         /\ \A k \in 1 .. a :
              /\ Cardinality(Z(k)) = 1
              /\ H.coeffs[k] = 2 * Q.at[<<SetMin(Z(k)), SetMin(Z(k))>>]
         /\ \A k \in 1 .. (a - 1) : SetMin(Z(k)) < SetMin(Z(k + 1))
         /\ \A m \in 0 .. (g - 1) :
              LET k == a + 3 * m + 1
                  i == SetMin(Z(k))
                  j == SetMax(Z(k))
              IN /\ Cardinality(Z(k)) = 2
                 /\ Z(k + 1) = {i} /\ Z(k + 2) = {j}
                 /\ \A d \in 0 .. 2 : H.coeffs[k + d] = Q.at[<<i, j>>]
         /\ \A m \in 0 .. (g - 2) :
              LET k == a + 3 * m + 1
                  i == SetMin(Z(k))
                  j == SetMax(Z(k))
                  i2 == SetMin(Z(k + 3))
                  j2 == SetMax(Z(k + 3))
              IN i < i2 \/ (i = i2 /\ j < j2)
         /\ L - (a + 3 * g) = 1 => (Z(L) = {} /\ H.coeffs[L] = ConstantTerm(Q, Q.rows))

(***************************************************************************)
(* C12.  _qubo_to_hamiltonian leaves its input as it was, a second call on *)
(* the same matrix returns the same sequence of terms and coefficients as  *)
(* the first, and the sequence is ordered: diagonal terms in variable      *)
(* order, then the terms of the pairs (i, j) in lexicographic order, then  *)
(* the constant term.                                                      *)
(***************************************************************************)
C12_DeterministicOrderedTerms ==
    /\ [][qubo_matrix' = qubo_matrix]_vars
    /\ [](pc = "returned_again" =>
            /\ previous = hamiltonian
            /\ TermsInStatedOrder(hamiltonian, qubo_matrix))

C12_Witness ==
    /\ pc = "returned_again" /\ qubo_matrix.rows = 3
    /\ Len(hamiltonian.paulis) = 7 /\ previous = hamiltonian

\* The multiset of (qubit set, coefficient) terms of H, the qubits renamed by f.
TermBag(H, f) ==
    LET term(k) == << {f[i] : i \in ZSet(H.paulis[k])}, H.coeffs[k] >>
    IN [t \in {term(k) : k \in DOMAIN H.paulis} |->
          Cardinality({k \in DOMAIN H.paulis : term(k) = t})]

(***************************************************************************)
(* C13.  For a square symmetric matrix Q and a permutation pi, the         *)
(* Hamiltonian of the relabelled matrix has the multiset of terms of the   *)
(* Hamiltonian of Q with every qubit i renamed pi(i), and the objective of *)
(* every permuted bit vector under the relabelled matrix is the objective  *)
(* of the bit vector under Q.                                              *)
(***************************************************************************)
C13_RelabellingInvariant ==
    pc = "relabelled" =>
        /\ TermBag(result.hamiltonian, [i \in Indices(qubo_matrix.rows) |-> i])
              = TermBag(hamiltonian, result.pi)
        /\ \A x \in BitVectors(qubo_matrix.rows) :
              calculate_objective_value(Permuted(x, result.pi), result.qubo_matrix)
                 = calculate_objective_value(x, qubo_matrix)

C13_Witness ==
    /\ pc = "relabelled" /\ qubo_matrix.rows = 3
    /\ result.pi = (0 :> 1) @@ (1 :> 2) @@ (2 :> 0)
    /\ result.qubo_matrix # qubo_matrix
    /\ result.hamiltonian.paulis # hamiltonian.paulis
    /\ Len(hamiltonian.paulis) >= 5

IsZeroMatrix(Q) == \A p \in DOMAIN Q.at : Q.at[p] = 0

(***************************************************************************)
(* C14.  As stated: for a square matrix of n >= 1 variables whose          *)
(* coefficients are all zero, _qubo_to_hamiltonian returns, without error, *)
(* an empty term list or only a zero constant term, and the objective of   *)
(* any bit vector then evaluated is 0.                                     *)
(***************************************************************************)
C14_ZeroMatrixEmptyHamiltonian ==
    (/\ pc # "call"
     /\ qubo_matrix.rows = qubo_matrix.cols /\ qubo_matrix.rows >= 1
     /\ IsZeroMatrix(qubo_matrix))
        => /\ pc # "raised" /\ error = "none"
           /\ \A k \in DOMAIN hamiltonian.paulis :
                 IsIdentity(hamiltonian.paulis[k]) /\ hamiltonian.coeffs[k] = 0
           /\ pc = "evaluated" => result.objective = 0

(***************************************************************************)
(* C15.  As stated: every solve and solve_problem call that gets as far as *)
(* the Hamiltonian, one without terms included, ends with a result whose   *)
(* bit vector has one bit per variable of the problem (n >= 1 variables).   *)
(***************************************************************************)
C15_VectorLengthIsN ==
    (/\ method \in Simple /\ pc \in {"done", "raised"}
     /\ error \in {"none", "QiskitError"} /\ qubo_matrix.rows >= 1)
        => (pc = "done" /\ Len(ReturnedVector) = qubo_matrix.rows)

(***************************************************************************)
(* C16.  As stated: for a problem of one variable with linear coefficient  *)
(* c, the vector solve and solve_problem return is [0] when c >= 0 and [1] *)
(* when c < 0, whatever histogram was sampled.                             *)
(***************************************************************************)
C16_OneVariableOptimum ==
    (Sampled /\ method \in Simple /\ qubo_matrix.rows = 1)
        => ReturnedVector = (IF qubo_matrix.at[<<0, 0>>] >= 0 THEN <<0>> ELSE <<1>>)

\* The objective written out: the sum of Q[i][j] * x[i] * x[j] over the cells on
\* and above the diagonal (each pair counted once, x[i] * x[i] = x[i]).
QuadraticForm(x, Q) ==
    SumOver(UpperCells(Q.rows),
            [p \in UpperCells(Q.rows) |-> Q.at[p] * x[p[1] + 1] * x[p[2] + 1]])

\* A solve with fixed parameters followed by one with a parameter search.
FixedThenVariational == SecondReturned /\ use_variational /\ ~previous.use_variational

C18_SameMatrixFromBothForms ==
    pc = "dict_matrix" => qubo_matrix = previous

(***************************************************************************)
(* C18, amended.  The dict form takes its number of variables from the     *)
(* largest index among its keys.  When that is the program's number of     *)
(* variables the two matrices are equal, and so are the Hamiltonians and   *)
(* the objective of every bit vector; otherwise the dict's matrix is the   *)
(* smaller leading block of the program's.  A dict without keys raises.    *)
(***************************************************************************)
C18_SameMatrixWhenLastVariableKeyed ==
    /\ pc = "raised" => DOMAIN qubo_dict = {}
    /\ pc = "dict_matrix" =>
         /\ qubo_matrix.rows = SetMax(all_indices(qubo_dict)) + 1
         /\ qubo_matrix.rows <= qubo_problem.num_vars
         /\ \A p \in Cells(qubo_matrix.rows, qubo_matrix.rows) :
               qubo_matrix.at[p] = previous.at[p]
         /\ qubo_matrix.rows = qubo_problem.num_vars =>
               /\ qubo_matrix = previous
               /\ qubo_to_hamiltonian(qubo_matrix) = qubo_to_hamiltonian(previous)
               /\ \A x \in BitVectors(qubo_matrix.rows) :
                     calculate_objective_value(x, qubo_matrix)
                        = calculate_objective_value(x, previous)

C18_Witness ==
    /\ pc = "dict_matrix" /\ qubo_problem.num_vars = 2
    /\ DOMAIN qubo_dict = {<<0, 0>>, <<1, 0>>}
    /\ qubo_matrix = previous
    /\ qubo_matrix.at[<<0, 1>>] # 0 /\ qubo_matrix.at[<<0, 0>>] # 0

\* The positions of the terms of H whose label carries Z exactly on the qubits of S.
TermsOn(H, S) == {k \in DOMAIN H.paulis : ZSet(H.paulis[k]) = S}

\* The pairs (a, b), a < b, that contain variable i and have a coefficient in Q.
PairsWith(Q, i) ==
    {p \in Cells(Q.rows, Q.rows) : p[1] < p[2] /\ i \in {p[1], p[2]} /\ AboveEps(Q.at[p])}

(***************************************************************************)
(* C19.  As stated: no two terms of the list _qubo_to_hamiltonian returns  *)
(* carry Z on the same set of qubits.                                      *)
(***************************************************************************)
C19_OneTermPerSignature ==
    pc = "returned" =>
        \A k1, k2 \in DOMAIN hamiltonian.paulis :
            ZSet(hamiltonian.paulis[k1]) = ZSet(hamiltonian.paulis[k2]) => k1 = k2

(***************************************************************************)
(* C19, amended.  The terms are appended one by one and never merged:      *)
(* variable i gets one Z_i term for a diagonal coefficient and one more    *)
(* for every pair with a coefficient that contains i, and the coefficients *)
(* of these terms add up to q_ii/2 plus the sum of q_ij/4 over the pairs   *)
(* (quarter units: 2 q_ii plus the sum of q_ij).  Each pair has at most    *)
(* one Z_i Z_j term and there is at most one constant term.                *)
(***************************************************************************)
C19_TermsAppendedUnmerged ==
    pc = "returned" =>
        /\ \A i \in Indices(qubo_matrix.rows) :
              LET K == TermsOn(hamiltonian, {i})
                  P == PairsWith(qubo_matrix, i)
                  d == qubo_matrix.at[<<i, i>>]
              IN /\ Cardinality(K) = (IF AboveEps(d) THEN 1 ELSE 0) + Cardinality(P)
                 /\ SumOver(K, [k \in K |-> hamiltonian.coeffs[k]])
                       = 2 * d + SumOver(P, [p \in P |-> qubo_matrix.at[p]])
        /\ \A S \in SUBSET Indices(qubo_matrix.rows) :
              Cardinality(S) # 1 => Cardinality(TermsOn(hamiltonian, S)) <= 1

C19_Witness ==
    /\ pc = "returned" /\ qubo_matrix.rows = 3
    /\ qubo_matrix.at[<<1, 1>>] = 2 /\ qubo_matrix.at[<<1, 2>>] = -1
    /\ Cardinality(TermsOn(hamiltonian, {1})) = 2
    /\ hamiltonian.paulis[1] = hamiltonian.paulis[3]

\* The sum of the coefficients of the terms of H with signature S.
Accumulated(H, S) ==
    SumOver(TermsOn(H, S), [k \in TermsOn(H, S) |-> H.coeffs[k]])

(***************************************************************************)
(* C20.  As stated: the threshold is applied to a term's coefficient after *)
(* all contributions to its signature are accumulated, so the coefficients *)
(* the returned list holds for one signature never cancel.                 *)
(***************************************************************************)
C20_ThresholdAfterAccumulation ==
    pc = "returned" =>
        \A S \in SUBSET Indices(qubo_matrix.rows) :
            TermsOn(hamiltonian, S) # {} => AboveEps(Accumulated(hamiltonian, S))

(***************************************************************************)
(* C20, amended.  The threshold is applied to each coefficient of the      *)
(* matrix as read, before the division and contribution by contribution:   *)
(* every Z_i and Z_i Z_j term is the half (diagonal) or the quarter (pair) *)
(* of one matrix coefficient that passes the threshold itself, and is      *)
(* never zero.  Only the constant, the last term, is compared with the     *)
(* threshold after it is accumulated.  (Quarter units: 2 q_ii and q_ij.)   *)
(***************************************************************************)
C20_ThresholdOnRawCoefficient ==
    pc = "returned" =>
        \A k \in DOMAIN hamiltonian.paulis :
            LET S == ZSet(hamiltonian.paulis[k])
                c == hamiltonian.coeffs[k]
            IN /\ c # 0
               /\ Cardinality(S) = 0 =>
                     /\ k = Len(hamiltonian.paulis)
                     /\ c = ConstantTerm(qubo_matrix, qubo_matrix.rows) /\ AboveEps(c)
               /\ Cardinality(S) = 1 =>
                     LET i == SetMin(S) IN
                     \/ AboveEps(qubo_matrix.at[<<i, i>>]) /\ c = 2 * qubo_matrix.at[<<i, i>>]
                     \/ \E p \in PairsWith(qubo_matrix, i) : c = qubo_matrix.at[p]
               /\ Cardinality(S) = 2 =>
                     LET p == <<SetMin(S), SetMax(S)>> IN
                     AboveEps(qubo_matrix.at[p]) /\ c = qubo_matrix.at[p]
               /\ Cardinality(S) <= 2

C20_Witness ==
    /\ pc = "returned" /\ qubo_matrix.rows = 2
    /\ qubo_matrix.at[<<0, 0>>] = -1 /\ qubo_matrix.at[<<0, 1>>] = 2
    /\ Cardinality(TermsOn(hamiltonian, {0})) = 2
    /\ Accumulated(hamiltonian, {0}) = 0

\* The positions of solve and solve_problem after the Hamiltonian was built.
AfterHamiltonian == {"backend", "params", "search", "circuit", "execute", "done"}

\* What one step of solve or solve_problem may change, given where the call is.
OneStepInOrder ==
    /\ pc # "hamiltonian" => hamiltonian' = hamiltonian
    /\ pc = "hamiltonian" => (nfev = 0 /\ qaoa_circuit = Unset /\ counts = << >>)
    /\ nfev' # nfev =>
         (/\ use_variational /\ pc = "search" /\ nfev' = nfev + 1
          /\ qaoa_circuit = Unset /\ counts = << >>)
    /\ (gammas' # gammas \/ betas' # betas) => pc \in {"params", "search"}
    /\ qaoa_circuit # Unset => qaoa_circuit' = qaoa_circuit
    /\ counts' # counts =>
         (/\ pc = "execute" /\ counts = << >> /\ pc' = "done"
          /\ result'.counts = counts')
    /\ pc = "done" => (counts' = counts /\ nfev' = nfev)

\* What has happened by the time the call is at its position.
StepsSoFarInOrder ==
    /\ ~use_variational => (nfev = 0 /\ search_end = "none")
    /\ (use_variational /\ pc \in {"circuit", "execute", "done"}) =>
          (nfev >= 1 /\ search_end # "none")
    /\ (use_variational /\ pc \in {"execute", "done"}) =>
          qaoa_circuit = create_parameterized_circuit(hamiltonian, gammas, betas, reps)
    /\ Sampled =>
          /\ result.counts = counts
          /\ ReturnedVector = best_solution(best_bitstring(counts))

(***************************************************************************)
(* C21.  In every call of solve and solve_problem the Hamiltonian is built *)
(* once, before anything is executed, and is not rebuilt; the cost         *)
(* function is evaluated only during the parameter search, before the      *)
(* final circuit exists, and never with use_variational = false; the       *)
(* parameters the search returns are the ones of the final circuit; the    *)
(* final circuit is executed once, after the last evaluation, and the      *)
(* result is read from the histogram of that execution.                    *)
(***************************************************************************)
C21_StepsInOrder ==
    /\ [][(method \in Simple) => OneStepInOrder]_vars
    /\ [](method \in Simple => StepsSoFarInOrder)

C21_Witness ==
    /\ Sampled /\ method = "solve" /\ use_variational /\ optimizer_name = "SPSA"
    /\ nfev = MaxEvals /\ gammas \o betas # initial_point(reps)
    /\ cost_eval = Unset

\* The phase a sequence of rz gates gives the basis state of bit vector x, in units
\* of minus the gate's gamma: rz(2 * gamma * coeff) on qubit q multiplies the
\* amplitude by exp(-i * gamma * coeff * z), z = +1 for bit 0 and -1 for bit 1.
RECURSIVE RotationPhase(_, _, _)
RotationPhase(ops, x, k) ==
    IF k > Len(ops) THEN 0
    ELSE ops[k].angle[3] * (1 - 2 * x[ops[k].qubit + 1]) + RotationPhase(ops, x, k + 1)

(***************************************************************************)
(* C22.  As stated: the phase the cost step gives the basis state of a bit *)
(* vector for one Hamiltonian term is gamma times the term's coefficient   *)
(* times the product of the eigenvalues (+1 for bit 0, -1 for bit 1) of    *)
(* the qubits the term touches.                                            *)
(***************************************************************************)
C22_PhaseIsProductOfEigenvalues ==
    pc = "evaluated" =>
        \A k \in DOMAIN hamiltonian.paulis :
            ~IsIdentity(hamiltonian.paulis[k]) =>
                RotationPhase(ZRotations(hamiltonian.paulis[k], "gamma",
                                         hamiltonian.coeffs[k], 1), solution, 1)
                   = TermContrib(hamiltonian.paulis[k], hamiltonian.coeffs[k], solution, 1)

\* The number of Z characters in the labels of H: the cost rotations of one layer.
RotationsPerLayer(H) ==
    SumOver(DOMAIN H.paulis, [k \in DOMAIN H.paulis |-> Cardinality(ZSet(H.paulis[k]))])

\* The circuit c has the layered shape: a Hadamard on each of its n qubits; then
\* for each layer l = 1 .. r in order the cost rotations with gs[l], each on a qubit
\* where a term of H carries Z and with that term's coefficient, followed by an X
\* rotation of angle 2 * bs[l] on every qubit; then the measurement of all qubits.
Layered(c, H, gs, bs, r) ==
    LET n == c.num_qubits
        R == RotationsPerLayer(H)
        start(l) == n + (l - 1) * (R + n)
    IN /\ Len(c.ops) = n + r * (R + n) + 1
       /\ \A q \in 1 .. n : c.ops[q] = [gate |-> "h", angle |-> << >>, qubit |-> q - 1]
       /\ \A l \in 1 .. r :
            /\ \A m \in 1 .. R :
                 LET op == c.ops[start(l) + m] IN
                 /\ op.gate = "rz" /\ op.angle[1] = 2 /\ op.angle[2] = gs[l]
                 /\ \E k \in DOMAIN H.paulis :
                       op.qubit \in ZSet(H.paulis[k]) /\ op.angle[3] = H.coeffs[k]
            /\ \A q \in 1 .. n :
                 c.ops[start(l) + R + q]
                    = [gate |-> "rx", angle |-> <<2, bs[l]>>, qubit |-> q - 1]
       /\ c.ops[Len(c.ops)].gate = "measure_all"

EnergyOf(H, x) ==
    SumOver(DOMAIN H.paulis,
            [k \in DOMAIN H.paulis |->
               IF Cardinality({i \in ZSet(H.paulis[k]) : x[i + 1] = 1}) % 2 = 0
               THEN H.coeffs[k] ELSE 0 - H.coeffs[k]])

\* The energy of the bit vector the k-th key of the histogram stands for.
ObservedEnergy(k) == EnergyOf(hamiltonian, best_solution(counts[k][1]))

(***************************************************************************)
(* C24.  The value the cost function computes from a non-empty histogram   *)
(* is the sum over the observed bitstrings of count / total count times    *)
(* the energy of the bitstring, the constant term included; it is the      *)
(* energy of b when b is the only bitstring, and it lies between the       *)
(* smallest and the largest energy observed.  (The value is kept as        *)
(* numerator over total count.)                                            *)
(***************************************************************************)
C24_CostIsWeightedAverage ==
    pc = "costed" =>
        LET num == result.energy[1]
            total == result.energy[2]
        IN /\ total = SumOver(DOMAIN counts, [k \in DOMAIN counts |-> counts[k][2]])
           /\ total > 0
           /\ num = SumOver(DOMAIN counts,
                            [k \in DOMAIN counts |-> counts[k][2] * ObservedEnergy(k)])
           /\ Len(counts) = 1 => num = total * ObservedEnergy(1)
           /\ \E k \in DOMAIN counts : total * ObservedEnergy(k) <= num
           /\ \E k \in DOMAIN counts : num <= total * ObservedEnergy(k)

C24_Witness ==
    /\ pc = "costed" /\ shots = 3 /\ Len(counts) = 2 /\ qubo_matrix.rows = 2
    /\ \E k \in DOMAIN hamiltonian.paulis : IsIdentity(hamiltonian.paulis[k])
    /\ \E k \in DOMAIN counts : 3 * ObservedEnergy(k) < result.energy[1]
    /\ \E k \in DOMAIN counts : result.energy[1] < 3 * ObservedEnergy(k)

\* The call has ended: a value was returned or an exception left the method.
Ended == pc \in {"done", "raised"}

(***************************************************************************)
(* C25.  Every call ends.  The parameter search makes at most as many      *)
(* cost-function evaluations as its optimizer's budget allows (COBYLA:     *)
(* maxiter = 200; SPSA: maxiter = 100 iterations of two evaluations), then *)
(* returns, and the final circuit is sampled and the result extracted; no  *)
(* position of the call is stayed in for ever.                             *)
(***************************************************************************)
C25_EverySolveEnds ==
    /\ <>Ended
    /\ [](/\ nfev <= EvalBudget(optimizer_name)
          /\ nfev <= (IF optimizer_name = "COBYLA" THEN COBYLA_maxiter
                      ELSE 2 * SPSA_maxiter)
          /\ (search_end # "none" /\ Ended /\ error = "none") => Sampled)

C25_Witness ==
    /\ Sampled /\ method = "solve_problem" /\ use_variational
    /\ optimizer_name = "COBYLA" /\ search_end = "maxiter"
    /\ nfev = EvalBudget(optimizer_name) /\ reps = 2

(***************************************************************************)
(* C26.  The parameters are one vector of length 2*reps laid out as the    *)
(* gammas followed by the betas: the vector the search starts from reads   *)
(* as gamma = 0.8 and beta = 0.4 in every layer, the cost function and the *)
(* final circuit take gamma[l] and beta[l] from the same positions of a    *)
(* vector, and a circuit built without a search uses gamma = 0.8 and       *)
(* beta = 0.4 in every layer, in QAOAPortfolioOptimizer as well as in      *)
(* SimpleQAOAOptimizer.                                                    *)
(***************************************************************************)
LayerAngles(c) == c.ops[1].angle

SameLayout(H, v, r) ==
    /\ Len(v) = 2 * r
    /\ cost_function(v, r).gammas = [l \in 1 .. r |-> v[l]]
    /\ cost_function(v, r).betas = [l \in 1 .. r |-> v[r + l]]
    /\ cost_function_circuit(H, cost_function(v, r).gammas, cost_function(v, r).betas, r)
         = create_parameterized_circuit(H, SubSeq(v, 1, r), SubSeq(v, r + 1, 2 * r), r)

C26_ParameterLayout ==
    /\ (method \in Simple /\ use_variational /\ hamiltonian # Unset) =>
         /\ \A v \in SearchPoints(reps) : SameLayout(hamiltonian, v, reps)
         /\ cost_function(initial_point(reps), reps).gammas = [l \in 1 .. reps |-> "0.8"]
         /\ cost_function(initial_point(reps), reps).betas = [l \in 1 .. reps |-> "0.4"]
    /\ (method \in Simple /\ use_variational /\ qaoa_circuit # Unset) =>
         /\ gammas \o betas \in SearchPoints(reps)
         /\ qaoa_circuit = cost_function_circuit(hamiltonian, gammas, betas, reps)
    /\ (method \in Simple /\ ~use_variational /\ qaoa_circuit # Unset) =>
         qaoa_circuit = create_parameterized_circuit(hamiltonian,
                            [l \in 1 .. reps |-> "0.8"], [l \in 1 .. reps |-> "0.4"], reps)
    /\ (method = "portfolio_solve" /\ qaoa_circuit # Unset) =>
         \E gs \in {[l \in 1 .. reps |-> "0.8"]}, bs \in {[l \in 1 .. reps |-> "0.4"]} :
            \/ LayerAngles(qaoa_circuit) = gs \o bs
            \/ LayerAngles(qaoa_circuit) = [k \in 1 .. 2 * reps |-> IF k % 2 = 1 THEN gs[(k + 1) \div 2]
                                                                    ELSE bs[k \div 2]]

\* Q with the cells below the diagonal set to zero
UpperTriangle(Q) ==
    [Q EXCEPT !.at = [p \in DOMAIN Q.at |-> IF p[1] <= p[2] THEN Q.at[p] ELSE 0]]

\* The pairs (i, j), i < j, whose coefficient Q holds in both (i, j) and (j, i).
MirroredPairs(Q) ==
    {p \in Cells(Q.rows, Q.rows) :
        p[1] < p[2] /\ AboveEps(Q.at[p]) /\ Q.at[<<p[2], p[1]>>] = Q.at[p]}

ObjectiveWithPairsTimes(m, x, Q) ==
    SumOver(Indices(Q.rows), [i \in Indices(Q.rows) |-> Q.at[<<i, i>>] * x[i + 1]])
    + SumOver(MirroredPairs(Q),
              [p \in MirroredPairs(Q) |-> m * Q.at[p] * x[p[1] + 1] * x[p[2] + 1]])

(***************************************************************************)
(* C27.  As stated: for a symmetric matrix that holds a pair's coefficient *)
(* q in both (i, j) and (j, i) the pair is counted twice: its Z_i Z_j      *)
(* coefficient is that of a pair coefficient 2q (2q/4, in quarter units    *)
(* 2q) and the objective of a vector with x_i = x_j = 1 holds 2q for it.   *)
(***************************************************************************)
C27_SymmetricPairDoubled ==
    (pc = "evaluated" /\ qubo_matrix.rows = qubo_matrix.cols) =>
        /\ \A p \in MirroredPairs(qubo_matrix) :
              Accumulated(hamiltonian, {p[1], p[2]}) = 2 * qubo_matrix.at[p]
        /\ result.objective = ObjectiveWithPairsTimes(2, solution, qubo_matrix)

(***************************************************************************)
(* C27, amended.  For a symmetric matrix that holds a pair's coefficient q *)
(* in both (i, j) and (j, i) the pair is counted once: only the cells with *)
(* i < j are read, so the Hamiltonian is that of the matrix with the cells *)
(* below the diagonal zeroed, the pair's Z_i Z_j coefficient is q/4        *)
(* (quarter units: q) and the objective of a vector with x_i = x_j = 1     *)
(* holds q for it, as does the energy.                                     *)
(***************************************************************************)
C27_SymmetricPairCountedOnce ==
    (pc = "evaluated" /\ qubo_matrix.rows = qubo_matrix.cols) =>
        /\ \A p \in MirroredPairs(qubo_matrix) :
              Accumulated(hamiltonian, {p[1], p[2]}) = qubo_matrix.at[p]
        /\ LET H == qubo_to_hamiltonian(UpperTriangle(qubo_matrix))
           IN hamiltonian = [paulis |-> H.paulis, coeffs |-> H.coeffs]
        /\ result.objective = ObjectiveWithPairsTimes(1, solution, qubo_matrix)
        /\ result.objective = calculate_objective_value(solution, UpperTriangle(qubo_matrix))

C27_Witness ==
    /\ pc = "evaluated" /\ qubo_matrix.rows = 2 /\ qubo_matrix.cols = 2
    /\ qubo_matrix.at[<<0, 1>>] = 2 /\ qubo_matrix.at[<<1, 0>>] = 2
    /\ solution = <<1, 1>> /\ result.objective = 2 + qubo_matrix.at[<<0, 0>>] + qubo_matrix.at[<<1, 1>>]

\* self.reps, self.shots, self.backend and the caller's problem across one step
ConfigurationAndProblemKept ==
    /\ reps' = reps /\ shots' = shots /\ self_backend' = self_backend
    /\ qubo_problem' = qubo_problem /\ qubo_dict' = qubo_dict

\* A call starts with none of its local names bound.
StartsAfresh ==
    pc = "start" =>
        /\ qubo_matrix = Unset /\ hamiltonian = Unset /\ backend = None
        /\ gammas = << >> /\ betas = << >> /\ nfev = 0 /\ cost_eval = Unset
        /\ qaoa_circuit = Unset /\ counts = << >> /\ result = Unset

\* What a call holds, it computed itself from its own arguments.
OwnValues ==
    /\ hamiltonian # Unset =>
          LET H == qubo_to_hamiltonian(qubo_matrix)
          IN hamiltonian = [paulis |-> H.paulis, coeffs |-> H.coeffs]
    /\ gammas # << >> =>
          /\ gammas \o betas \in SearchPoints(reps)
          /\ use_variational => nfev >= 1
          /\ ~use_variational => gammas \o betas = initial_point(reps)
    /\ qaoa_circuit # Unset =>
          qaoa_circuit = (IF use_variational
                          THEN create_parameterized_circuit(hamiltonian, gammas, betas, reps)
                          ELSE create_qaoa_circuit(hamiltonian, "0.8", "0.4", reps))
    /\ pc = "execute" => counts = << >>
    /\ counts # << >> =>
          /\ counts \in Histograms(qaoa_circuit.num_qubits, shots)
          /\ ReturnedVector = best_solution(best_bitstring(counts))
          /\ result.counts = counts

(***************************************************************************)
(* C28.  A call of solve or solve_problem leaves reps, shots and backend   *)
(* of the instance and the caller's problem as they were, at every step,   *)
(* on the way to a result and on the way to a raise.  Each execution binds *)
(* a histogram the call did not have before, and a later call on the same  *)
(* instance starts with no matrix, Hamiltonian, parameters, circuit or     *)
(* histogram: what it holds it builds from its own arguments.              *)
(***************************************************************************)
C28_CallsShareNothing ==
    /\ [][ConfigurationAndProblemKept]_vars
    /\ [](StartsAfresh /\ OwnValues)

C28_Witness ==
    /\ SecondReturned /\ use_variational
    /\ gammas \o betas # initial_point(reps)
    /\ PreviousVector # ReturnedVector

RaisedForName ==
    /\ pc \in {"except", "raised"} /\ error = "ValueError" /\ hamiltonian # Unset

(***************************************************************************)
(* C30.  The optimizer's name is looked at only when the parameters are    *)
(* searched.  With use_variational = true a name other than COBYLA and     *)
(* SPSA makes solve and solve_problem raise before any evaluation of the   *)
(* cost function and before the final circuit exists or runs.  With        *)
(* use_variational = false no name raises an error, and the circuit and    *)
(* the result are the ones of the fixed parameters and the histogram.      *)
(***************************************************************************)
C30_NameCheckedOnlyWhenSearching ==
    method \in Simple =>
        /\ (use_variational /\ optimizer_name \notin {"COBYLA", "SPSA"}) =>
              /\ nfev = 0 /\ jobs = << >> /\ cost_eval = Unset
              /\ qaoa_circuit = Unset /\ counts = << >> /\ result = Unset
              /\ pc \notin {"search", "circuit", "execute", "done"}
              /\ (pc \in {"except", "raised"} /\ hamiltonian # Unset) => error = "ValueError"
        /\ RaisedForName => (use_variational /\ optimizer_name \notin {"COBYLA", "SPSA"})
        /\ ~use_variational =>
              /\ nfev = 0 /\ search_end = "none"
              /\ qaoa_circuit # Unset =>
                    qaoa_circuit = create_qaoa_circuit(hamiltonian, "0.8", "0.4", reps)
              /\ Sampled =>
                    result = (IF method = "solve" THEN SolveResult(counts, qubo_matrix, shots)
                              ELSE SolveProblemResult(counts, qubo_matrix, shots))

C30_Witness ==
    /\ pc = "raised" /\ RaisedForName /\ optimizer_name = "ADAM" /\ method = "solve"

====
